---- MODULE Spec2Model ----
(***************************************************************************)
(* Model of src/supabaseClient.ts: the backend client initializer          *)
(* (lines 1-18) and the ReportsView component (lines 20-330): its filter   *)
(* state, the filteredTickets selection and the aggregates derived from it.*)
(*                                                                         *)
(* Conventions.                                                            *)
(*  - A JavaScript string that the code inspects (dates, settings) is a    *)
(*    sequence of one-character strings; Undefined stands for an absent    *)
(*    value (undefined / null).  Names that are only compared (area,       *)
(*    status, technician) are TLA+ strings.                                *)
(*  - A JavaScript number is a record [nan, num, den]: NaN or the exact    *)
(*    rational num/den (den > 0).                                          *)
(*  - A Date is a record [isNull, valid, day]; day counts local midnights  *)
(*    since 1970-01-01, so getTime() is measured in days (every local      *)
(*    midnight is taken to be 24 h after the previous one).                *)
(*  - A plain object literal used as a dictionary is the sequence of its   *)
(*    own entries in insertion order; reads fall back to Object.prototype. *)
(***************************************************************************)
EXTENDS Integers, Sequences, FiniteSets, TLC

VARIABLES
    tickets,               \* props.tickets
    users,                 \* props.users
    LOCATIONS_FOR_FILTER,  \* imported option list of the area filter
    STATUSES,              \* imported option list of the status filter
    reportFilters,         \* useState: timeRange, area, status, technician
    lastOp,                \* history: the last handler that ran, and for a
                           \* reset whether the filters were the defaults before
    pc,                    \* module evaluation: "start" or "done"
    environment,           \* localStorage, import.meta.env, and what throws
    supabaseClient,        \* let supabaseClient
    supabase,              \* export const supabase
    console,               \* console.warn / console.error calls, in order
    uncaught               \* an exception escaped module evaluation

vars == <<tickets, users, LOCATIONS_FOR_FILTER, STATUSES, reportFilters, lastOp,
          pc, environment, supabaseClient, supabase, console, uncaught>>

viewVars == <<tickets, users, LOCATIONS_FOR_FILTER, STATUSES, reportFilters, lastOp>>

clientVars == <<pc, environment, supabaseClient, supabase, console, uncaught>>

-----------------------------------------------------------------------------
(* JavaScript values *)

Undefined == <<"<undefined>">>

\* !!s for a string or undefined
Truthy(s) == s /= Undefined /\ s /= <<>>

NaN == [nan |-> TRUE, num |-> 0, den |-> 1]

Num(n) == [nan |-> FALSE, num |-> n, den |-> 1]

Abs(n) == IF n < 0 THEN -n ELSE n

\* a / b for JavaScript numbers, b a non-zero integer or NaN
NumDiv(a, b) ==
    IF a.nan \/ b.nan THEN NaN
    ELSE IF b.num < 0
         THEN [nan |-> FALSE, num |-> -a.num * b.den, den |-> a.den * (-b.num)]
         ELSE [nan |-> FALSE, num |-> a.num * b.den, den |-> a.den * b.num]

NumAdd(a, b) ==
    IF a.nan \/ b.nan THEN NaN
    ELSE [nan |-> FALSE, num |-> a.num * b.den + b.num * a.den, den |-> a.den * b.den]

NumSub(a, b) ==
    IF a.nan \/ b.nan THEN NaN
    ELSE [nan |-> FALSE, num |-> a.num * b.den - b.num * a.den, den |-> a.den * b.den]

NumMul(a, b) ==
    IF a.nan \/ b.nan THEN NaN
    ELSE [nan |-> FALSE, num |-> a.num * b.num, den |-> a.den * b.den]

\* a < b; false when either is NaN
NumLess(a, b) == ~a.nan /\ ~b.nan /\ a.num * b.den < b.num * a.den

\* a === b as numbers; NaN equals nothing
NumEq(a, b) == ~a.nan /\ ~b.nan /\ a.num * b.den = b.num * a.den

\* Number.prototype.toFixed(1): "NaN", or the tenths nearest to the value
\* (of two equally near, the larger magnitude), kept as a count of tenths
toFixed1(a) ==
    IF a.nan THEN [nan |-> TRUE, tenths |-> 0]
    ELSE LET mag == (2 * 10 * Abs(a.num) + a.den) \div (2 * a.den)
         IN  [nan |-> FALSE, tenths |-> IF a.num < 0 THEN -mag ELSE mag]

-----------------------------------------------------------------------------
(* Strings *)

Digits == <<"0", "1", "2", "3", "4", "5", "6", "7", "8", "9">>

IsDigit(c) == \E i \in 1..10 : Digits[i] = c

DigitValue(c) == (CHOOSE i \in 1..10 : Digits[i] = c) - 1

IsWhiteSpace(c) == c \in {" ", "\t", "\n"}

RECURSIVE TrimStart(_)
TrimStart(s) ==
    IF s /= <<>> /\ IsWhiteSpace(Head(s)) THEN TrimStart(Tail(s)) ELSE s

RECURSIVE TrimEnd(_)
TrimEnd(s) ==
    IF s /= <<>> /\ IsWhiteSpace(s[Len(s)]) THEN TrimEnd(SubSeq(s, 1, Len(s) - 1)) ELSE s

\* String.prototype.trim
Trim(s) == TrimEnd(TrimStart(s))

\* String.prototype.startsWith
StartsWith(s, prefix) ==
    Len(s) >= Len(prefix) /\ SubSeq(s, 1, Len(prefix)) = prefix

\* String.prototype.split(sep) for a one-character separator
RECURSIVE SplitFrom(_, _, _)
SplitFrom(s, sep, cur) ==
    IF s = <<>> THEN <<cur>>
    ELSE IF Head(s) = sep THEN <<cur>> \o SplitFrom(Tail(s), sep, <<>>)
    ELSE SplitFrom(Tail(s), sep, Append(cur, Head(s)))

Split(s, sep) == SplitFrom(s, sep, <<>>)

\* value of the longest prefix of decimal digits, acc the value so far
RECURSIVE DigitPrefix(_, _)
DigitPrefix(s, acc) ==
    IF s /= <<>> /\ IsDigit(Head(s))
    THEN DigitPrefix(Tail(s), 10 * acc + DigitValue(Head(s)))
    ELSE acc

\* parseInt(s, 10): leading white space, an optional sign, then digits
parseInt(s) ==
    LET t    == TrimStart(s)
        neg  == t /= <<>> /\ Head(t) = "-"
        body == IF t /= <<>> /\ Head(t) \in {"-", "+"} THEN Tail(t) ELSE t
    IN  IF body = <<>> \/ ~IsDigit(Head(body)) THEN NaN
        ELSE Num(IF neg THEN -DigitPrefix(body, 0) ELSE DigitPrefix(body, 0))

-----------------------------------------------------------------------------
(* Dates *)

NullDate == [isNull |-> TRUE, valid |-> FALSE, day |-> 0]

InvalidDate == [isNull |-> FALSE, valid |-> FALSE, day |-> 0]

\* days from 1970-01-01 to the given day of the proleptic Gregorian calendar,
\* m in 1..12
DaysFromCivil(y, m, d) ==
    LET yy  == IF m <= 2 THEN y - 1 ELSE y
        era == yy \div 400
        yoe == yy - era * 400
        mp  == IF m > 2 THEN m - 3 ELSE m + 9
        doy == (153 * mp + 2) \div 5 + d - 1
        doe == yoe * 365 + yoe \div 4 - yoe \div 100 + doy
    IN  era * 146097 + doe - 719468

\* new Date(year, monthIndex, day): local midnight; a year 0..99 means
\* 1900 + year; month and day out of range carry over; NaN gives Invalid Date
NewDate(year, monthIndex, day) ==
    IF year.nan \/ monthIndex.nan \/ day.nan THEN InvalidDate
    ELSE LET y  == IF year.num >= 0 /\ year.num <= 99 THEN 1900 + year.num ELSE year.num
             ym == y + (monthIndex.num \div 12)
             mn == monthIndex.num % 12
         IN  [isNull |-> FALSE, valid |-> TRUE,
              day |-> DaysFromCivil(ym, mn + 1, 1) + day.num - 1]

\* Date.prototype.getTime, in days
getTime(date) == IF date.valid THEN Num(date.day) ELSE NaN

parseGermanDate(dateStr) ==
    IF ~Truthy(dateStr) \/ dateStr = <<"N", "/", "A">> THEN NullDate
    ELSE LET parts == Split(dateStr, ".")
         IN  IF Len(parts) = 3
             THEN NewDate(parseInt(parts[3]),
                          NumSub(parseInt(parts[2]), Num(1)),
                          parseInt(parts[1]))
             ELSE NullDate


\* year, month index (0..11) and day of month of a valid Date
CivilFromDays(z0) ==
    LET z   == z0 + 719468
        era == z \div 146097
        doe == z - era * 146097
        yoe == (doe - doe \div 1460 + doe \div 36524 - doe \div 146096) \div 365
        doy == doe - (365 * yoe + yoe \div 4 - yoe \div 100)
        mp  == (5 * doy + 2) \div 153
        d   == doy - (153 * mp + 2) \div 5 + 1
        m   == IF mp < 10 THEN mp + 3 ELSE mp - 9
    IN  [year |-> yoe + era * 400 + (IF m <= 2 THEN 1 ELSE 0), month |-> m - 1, date |-> d]

\* Date.prototype.getDate
getDate(date) == CivilFromDays(date.day).date

\* Date.prototype.setDate(dayValue) on a copy of a valid date
setDate(date, dayValue) ==
    LET c == CivilFromDays(date.day)
    IN  NewDate(Num(c.year), Num(c.month), Num(dayValue))

-----------------------------------------------------------------------------
(* Plain objects used as dictionaries: counts, acc, techData.  Object.entries *)
(* lists the own entries in insertion order (keys that are array indices    *)
(* would come first; no label of the model is one).                         *)

\* data properties every object literal inherits from Object.prototype
ObjectPrototypeKeys ==
    {"constructor", "toString", "toLocaleString", "valueOf", "hasOwnProperty",
     "isPrototypeOf", "propertyIsEnumerable", "__proto__"}

Number(n) == [type |-> "number", n |-> n]

\* a string that is no numeral, such as the source text of a function
NonNumericString == [type |-> "string", n |-> NaN]

FunctionObject == [type |-> "function", n |-> NaN]

\* ToNumber(v)
ToNumber(v) == IF v.type = "number" THEN v.n ELSE NaN

\* v + 1: addition for a number, string concatenation otherwise
PlusOne(v) == IF v.type = "number" THEN Number(NumAdd(v.n, Num(1))) ELSE NonNumericString

JsOwnIndex(obj, key) ==
    IF \E i \in 1..Len(obj) : obj[i].label = key
    THEN CHOOSE i \in 1..Len(obj) : obj[i].label = key
    ELSE 0

\* obj[key] !== undefined, also the truthiness of obj[key] for object values
JsDefined(obj, key) == JsOwnIndex(obj, key) /= 0 \/ key \in ObjectPrototypeKeys

\* obj[key], where defined
JsGet(obj, key) ==
    IF JsOwnIndex(obj, key) /= 0 THEN obj[JsOwnIndex(obj, key)].value ELSE FunctionObject

\* obj[key] = value for a primitive value: the inherited __proto__ setter
\* ignores primitives, any other key becomes or stays an own property
JsSet(obj, key, value) ==
    IF key = "__proto__" THEN obj
    ELSE IF JsOwnIndex(obj, key) /= 0
         THEN [obj EXCEPT ![JsOwnIndex(obj, key)].value = value]
         ELSE Append(obj, [label |-> key, value |-> value])

\* Array.prototype.sort((a, b) => b.value - a.value): stable, descending by
\* value; a NaN difference counts as 0 (SortCompare)
RECURSIVE InsertDescending(_, _)
InsertDescending(sorted, x) ==
    IF sorted = <<>> THEN <<x>>
    ELSE IF NumLess(ToNumber(Head(sorted).value), ToNumber(x.value))
         THEN <<x>> \o sorted
         ELSE <<Head(sorted)>> \o InsertDescending(Tail(sorted), x)

RECURSIVE SortDescending(_)
SortDescending(entries) ==
    IF entries = <<>> THEN <<>>
    ELSE InsertDescending(SortDescending(SubSeq(entries, 1, Len(entries) - 1)),
                          entries[Len(entries)])

-----------------------------------------------------------------------------
(* ReportsView: values of imported enums *)

Status_Abgeschlossen == "Abgeschlossen"

Status_Ueberfaellig == "Ueberfaellig"

Role_Technician == "Technician"

\* the keys of timeRangeOptions
TimeRanges == <<"7d", "30d", "90d", "all">>

\* const days = { '7d': 7, '30d': 30, '90d': 90 }
days == [r \in {"7d", "30d", "90d"} |->
            CASE r = "7d" -> 7 [] r = "30d" -> 30 [] r = "90d" -> 90]

\* const today = new Date(2026, 1, 7); today.setHours(0, 0, 0, 0)
today == NewDate(Num(2026), Num(1), Num(7))

\* cutOffDate = new Date(today); cutOffDate.setDate(today.getDate() - days[timeRange])
cutOffDate(timeRange) == setDate(today, getDate(today) - days[timeRange])

-----------------------------------------------------------------------------
(* ReportsView: memoised values *)

technicians == SelectSeq(users, LAMBDA u : u.role = Role_Technician)

RECURSIVE Names(_)
Names(us) == IF us = <<>> THEN <<>> ELSE <<Head(us).name>> \o Names(Tail(us))

allTechnicianNames == <<"Alle">> \o Names(technicians)

TimeRangeTestFor_CutoffExcluded(timeRange, ticket) ==
    IF timeRange /= "all"
    THEN LET entryDate == parseGermanDate(ticket.entryDate)
         IN  IF entryDate.isNull THEN FALSE
             ELSE NumLess(getTime(cutOffDate(timeRange)), getTime(entryDate))
    ELSE TRUE

\* the time-range part of the filter callback under the selected range:
\* TRUE when the ticket is kept
TimeRangeTestFor(timeRange, ticket) ==
    IF timeRange /= "all"
    THEN LET entryDate == parseGermanDate(ticket.entryDate)
         IN  IF entryDate.isNull THEN FALSE
             ELSE ~NumLess(getTime(entryDate), getTime(cutOffDate(timeRange)))
    ELSE TRUE

\* the time-range part of the filter callback, reading reportFilters.timeRange
TimeRangeTest(ticket) == TimeRangeTestFor(reportFilters.timeRange, ticket)

TicketPasses_StatusAgainstArea(ticket) ==
    IF ~TimeRangeTest(ticket) THEN FALSE
    ELSE IF reportFilters.area /= "Alle" /\ ticket.area /= reportFilters.area THEN FALSE
    ELSE IF reportFilters.status /= "Alle" /\ ticket.area /= reportFilters.status THEN FALSE
    ELSE IF reportFilters.technician /= "Alle"
            /\ ticket.technician /= reportFilters.technician THEN FALSE
    ELSE TRUE

\* the callback of tickets.filter
TicketPasses(ticket) ==
    IF ~TimeRangeTest(ticket) THEN FALSE
    ELSE IF reportFilters.area /= "Alle" /\ ticket.area /= reportFilters.area THEN FALSE
    ELSE IF reportFilters.status /= "Alle" /\ ticket.status /= reportFilters.status THEN FALSE
    ELSE IF reportFilters.technician /= "Alle"
            /\ ticket.technician /= reportFilters.technician THEN FALSE
    ELSE TRUE

filteredTickets == SelectSeq(tickets, TicketPasses)

\* the reducer of stats: the sum of completion - entry over the tickets whose
\* two dates parse to something non-null
RECURSIVE TotalTime(_, _)
TotalTime(ts, acc) ==
    IF ts = <<>> THEN acc
    ELSE LET entry      == parseGermanDate(Head(ts).entryDate)
             completion == parseGermanDate(Head(ts).completionDate)
         IN  IF ~entry.isNull /\ ~completion.isNull
             THEN TotalTime(Tail(ts), NumAdd(acc, NumSub(getTime(completion), getTime(entry))))
             ELSE TotalTime(Tail(ts), acc)

IsResolved(t) ==
    t.status = Status_Abgeschlossen /\ Truthy(t.completionDate) /\ Truthy(t.entryDate)

stats ==
    LET filtered        == filteredTickets
        total           == Len(filtered)
        abgeschlossene  == Len(SelectSeq(filtered, LAMBDA t : t.status = Status_Abgeschlossen))
        ueberfaellige   == Len(SelectSeq(filtered, LAMBDA t : t.status = Status_Ueberfaellig))
        resolvedTickets == SelectSeq(filtered, IsResolved)
        avgProcessingTime ==
            IF Len(resolvedTickets) > 0
            THEN NumDiv(TotalTime(resolvedTickets, Num(0)), Num(Len(resolvedTickets)))
            ELSE Num(0)
    IN  [total |-> total, abgeschlossene |-> abgeschlossene,
         ueberfaellige |-> ueberfaellige,
         avgProcessingTime |-> toFixed1(avgProcessingTime)]

\* acc[ticket.area] = (acc[ticket.area] || 0) + 1, over the tickets in order
RECURSIVE CountAreas(_, _)
CountAreas(ts, acc) ==
    IF ts = <<>> THEN acc
    ELSE LET area == Head(ts).area
             old  == IF JsDefined(acc, area) /\ JsGet(acc, area) /= Number(Num(0))
                     THEN JsGet(acc, area) ELSE Number(Num(0))
         IN  CountAreas(Tail(ts), JsSet(acc, area, PlusOne(old)))

ticketsByArea_SliceBeforeSort ==
    LET counts == CountAreas(filteredTickets, <<>>)
    IN  SortDescending(SubSeq(counts, 1, IF Len(counts) < 8 THEN Len(counts) ELSE 8))

ticketsByArea ==
    LET sorted == SortDescending(CountAreas(filteredTickets, <<>>))
    IN  SubSeq(sorted, 1, IF Len(sorted) < 8 THEN Len(sorted) ELSE 8)

\* technicians.forEach(tech => { counts[tech.name] = 0 })
RECURSIVE InitCounts(_, _)
InitCounts(techs, counts) ==
    IF techs = <<>> THEN counts
    ELSE InitCounts(Tail(techs), JsSet(counts, Head(techs).name, Number(Num(0))))

\* forEach(ticket => { if (ticket.technician && ticket.technician !== 'N/A'
\*                         && counts[ticket.technician] !== undefined)
\*                       counts[ticket.technician] += 1 })
RECURSIVE CountTechnicians(_, _)
CountTechnicians(ts, counts) ==
    IF ts = <<>> THEN counts
    ELSE LET name == Head(ts).technician
         IN  IF name /= "" /\ name /= "N/A" /\ JsDefined(counts, name)
             THEN CountTechnicians(Tail(ts), JsSet(counts, name, PlusOne(JsGet(counts, name))))
             ELSE CountTechnicians(Tail(ts), counts)

colors == <<"#0d6efd", "#6f42c1", "#dc3545", "#fd7e14",
            "#198754", "#6c757d", "#343a40", "#adb5bd">>

ticketsByTechnician ==
    LET counts == CountTechnicians(filteredTickets, InitCounts(technicians, <<>>))
        sorted == SortDescending(counts)
    IN  [index \in 1..Len(sorted) |->
            [label |-> sorted[index].label, value |-> sorted[index].value,
             color |-> colors[((index - 1) % Len(colors)) + 1]]]

activeTickets == SelectSeq(filteredTickets, LAMBDA t : t.status /= Status_Abgeschlossen)

technicianWorkload_OverAllTickets ==
    LET totalActiveTickets == Len(filteredTickets)
        counts == CountTechnicians(activeTickets, InitCounts(technicians, <<>>))
    IN  SortDescending(
            [i \in 1..Len(counts) |->
                [label |-> counts[i].label,
                 value |-> IF totalActiveTickets > 0
                           THEN Number(NumMul(NumDiv(ToNumber(counts[i].value),
                                                     Num(totalActiveTickets)), Num(100)))
                           ELSE Number(Num(0))]])

technicianWorkload ==
    LET totalActiveTickets == Len(activeTickets)
        counts == CountTechnicians(activeTickets, InitCounts(technicians, <<>>))
    IN  SortDescending(
            [i \in 1..Len(counts) |->
                [label |-> counts[i].label,
                 value |-> IF totalActiveTickets > 0
                           THEN Number(NumMul(NumDiv(ToNumber(counts[i].value),
                                                     Num(totalActiveTickets)), Num(100)))
                           ELSE Number(Num(0))]])

IsResolvedWithTechnician(t) ==
    t.status = Status_Abgeschlossen /\ Truthy(t.completionDate) /\ Truthy(t.entryDate)
    /\ t.technician /= "N/A"

\* technicians.forEach(tech => { techData[tech.name] = { totalTime: 0, count: 0 } });
\* assigning an object to __proto__ replaces the prototype and adds no entry
RECURSIVE InitTechData(_, _)
InitTechData(techs, techData) ==
    IF techs = <<>> THEN techData
    ELSE LET name == Head(techs).name
             zero == [label |-> name, totalTime |-> Num(0), count |-> 0]
         IN  IF name = "__proto__" THEN InitTechData(Tail(techs), techData)
             ELSE IF JsOwnIndex(techData, name) /= 0
                  THEN InitTechData(Tail(techs),
                                    [techData EXCEPT ![JsOwnIndex(techData, name)] = zero])
                  ELSE InitTechData(Tail(techs), Append(techData, zero))

\* resolvedTickets.forEach: a truthy techData[t.technician] that is inherited
\* is updated in place on the prototype and leaves techData's entries alone
RECURSIVE AddTimes(_, _)
AddTimes(ts, techData) ==
    IF ts = <<>> THEN techData
    ELSE LET t          == Head(ts)
             entry      == parseGermanDate(t.entryDate)
             completion == parseGermanDate(t.completionDate)
             i          == JsOwnIndex(techData, t.technician)
             time       == NumSub(getTime(completion), getTime(entry))
         IN  IF ~entry.isNull /\ ~completion.isNull /\ JsDefined(techData, t.technician)
                /\ i /= 0
             THEN AddTimes(Tail(ts),
                           [techData EXCEPT ![i].totalTime = NumAdd(@, time),
                                            ![i].count = @ + 1])
             ELSE AddTimes(Tail(ts), techData)

avgProcessingTimePerTechnician ==
    LET resolvedTickets == SelectSeq(filteredTickets, IsResolvedWithTechnician)
        techData == AddTimes(resolvedTickets, InitTechData(technicians, <<>>))
    IN  SortDescending(
            [i \in 1..Len(techData) |->
                [label |-> techData[i].label,
                 value |-> IF techData[i].count > 0
                           THEN Number(NumDiv(techData[i].totalTime, Num(techData[i].count)))
                           ELSE Number(Num(0))]])

-----------------------------------------------------------------------------
(* ReportsView: filter state and its handlers *)

\* the argument of useState, and of setReportFilters in resetFilters
DefaultFilters ==
    [timeRange |-> "30d", area |-> "Alle", status |-> "Alle", technician |-> "Alle"]

Range(seq) == {seq[i] : i \in 1..Len(seq)}

\* the options each select element offers
FilterOptions(filterName) ==
    CASE filterName = "timeRange"  -> Range(TimeRanges)
      [] filterName = "area"       -> Range(LOCATIONS_FOR_FILTER)
      [] filterName = "status"     -> Range(STATUSES)
      [] filterName = "technician" -> Range(allTechnicianNames)

FilterNames == {"timeRange", "area", "status", "technician"}

\* setReportFilters(prev => ({ ...prev, [filterName]: value }))
handleFilterChange(filterName, value) ==
    /\ pc = "done"
    /\ reportFilters' = [reportFilters EXCEPT ![filterName] = value]
    /\ lastOp' = [op |-> "handleFilterChange", fromDefault |-> FALSE]
    /\ UNCHANGED <<tickets, users, LOCATIONS_FOR_FILTER, STATUSES>>
    /\ UNCHANGED clientVars

ResetValue_KeepsTimeRange ==
    [timeRange |-> reportFilters.timeRange, area |-> "Alle", status |-> "Alle",
     technician |-> "Alle"]

ResetValue ==
    [timeRange |-> "30d", area |-> "Alle", status |-> "Alle", technician |-> "Alle"]

resetFilters ==
    /\ pc = "done"
    /\ reportFilters' = ResetValue
    /\ lastOp' = [op |-> "resetFilters", fromDefault |-> reportFilters = DefaultFilters]
    /\ UNCHANGED <<tickets, users, LOCATIONS_FOR_FILTER, STATUSES>>
    /\ UNCHANGED clientVars

-----------------------------------------------------------------------------
(* Backend client initializer, lines 3-18 *)

NullClient == [kind |-> "null", url |-> <<>>, key |-> <<>>]

Uninitialized == [kind |-> "uninitialized", url |-> <<>>, key |-> <<>>]

\* createClient(url, key), when it returns
createClient(url, key) == [kind |-> "client", url |-> url, key |-> key]

\* a || b
Or(a, b) == IF Truthy(a) THEN a ELSE b

\* (override || build-time value || '').trim()
Resolve(override, buildTime) == Trim(Or(Or(override, buildTime), <<>>))

supabaseUrl(env) == Resolve(env.SUPABASE_URL_OVERRIDE, env.VITE_SUPABASE_URL)

supabaseAnonKey(env) == Resolve(env.SUPABASE_ANON_KEY_OVERRIDE, env.VITE_SUPABASE_ANON_KEY)

HttpPrefix == <<"h", "t", "t", "p">>

TryBlock_NoPrefixCheck(env) ==
    IF env.storageThrows
    THEN [client |-> NullClient, log |-> <<>>, thrown |-> TRUE]
    ELSE IF Truthy(supabaseUrl(env)) /\ Truthy(supabaseAnonKey(env))
         THEN IF env.createClientThrows
              THEN [client |-> NullClient, log |-> <<>>, thrown |-> TRUE]
              ELSE [client |-> createClient(supabaseUrl(env), supabaseAnonKey(env)),
                    log |-> <<>>, thrown |-> FALSE]
         ELSE IF Truthy(supabaseUrl(env)) \/ Truthy(supabaseAnonKey(env))
              THEN [client |-> NullClient, log |-> <<"warn: incomplete or invalid">>,
                    thrown |-> FALSE]
              ELSE [client |-> NullClient, log |-> <<>>, thrown |-> FALSE]

\* the body of the try block: the client assigned, what was logged, and
\* whether a statement threw
TryBlock(env) ==
    IF env.storageThrows
    THEN [client |-> NullClient, log |-> <<>>, thrown |-> TRUE]
    ELSE IF Truthy(supabaseUrl(env)) /\ Truthy(supabaseAnonKey(env))
            /\ StartsWith(supabaseUrl(env), HttpPrefix)
         THEN IF env.createClientThrows
              THEN [client |-> NullClient, log |-> <<>>, thrown |-> TRUE]
              ELSE [client |-> createClient(supabaseUrl(env), supabaseAnonKey(env)),
                    log |-> <<>>, thrown |-> FALSE]
         ELSE IF Truthy(supabaseUrl(env)) \/ Truthy(supabaseAnonKey(env))
              THEN [client |-> NullClient, log |-> <<"warn: incomplete or invalid">>,
                    thrown |-> FALSE]
              ELSE [client |-> NullClient, log |-> <<>>, thrown |-> FALSE]

TryCatch_Rethrows(env) ==
    LET r == TryBlock(env)
    IN  [client |-> r.client, log |-> r.log, uncaught |-> r.thrown]

\* try { ... } catch (error) { console.error(...) }
TryCatch(env) ==
    LET r == TryBlock(env)
    IN  IF r.thrown
        THEN [client |-> r.client, log |-> Append(r.log, "error: failed to initialize"),
              uncaught |-> FALSE]
        ELSE [client |-> r.client, log |-> r.log, uncaught |-> FALSE]

\* evaluation of the module: lines 3-18 in one step
InitializeModule ==
    /\ pc = "start"
    /\ LET r == TryCatch(environment)
       IN  /\ supabaseClient' = r.client
           /\ console' = console \o r.log
           /\ uncaught' = r.uncaught
           /\ supabase' = IF r.uncaught THEN supabase ELSE r.client
    /\ pc' = "done"
    /\ UNCHANGED environment
    /\ UNCHANGED viewVars

-----------------------------------------------------------------------------
(* Inputs *)

MaxTickets == 2

NA == <<"N", "/", "A">>

D_01_01_2026 == <<"0", "1", ".", "0", "1", ".", "2", "0", "2", "6">>

D_07_01_2026 == <<"0", "7", ".", "0", "1", ".", "2", "0", "2", "6">>

D_08_01_2026 == <<"0", "8", ".", "0", "1", ".", "2", "0", "2", "6">>

D_11_01_2026 == <<"1", "1", ".", "0", "1", ".", "2", "0", "2", "6">>

D_20_01_2026 == <<"2", "0", ".", "0", "1", ".", "2", "0", "2", "6">>

D_05_02_2026 == <<"0", "5", ".", "0", "2", ".", "2", "0", "2", "6">>

\* three dot-separated parts, none numeric: "a.b.c"
D_NonNumeric == <<"a", ".", "b", ".", "c">>

\* one part only: "2026-01-01"
D_Iso == <<"2", "0", "2", "6", "-", "0", "1", "-", "0", "1">>

Ticket(entryDate, completionDate, area, status, technician) ==
    [entryDate |-> entryDate, completionDate |-> completionDate, area |-> area,
     status |-> status, technician |-> technician]

\* the tickets a list is drawn from when the claim is about filtering
FilterPool ==
    { Ticket(D_01_01_2026, D_11_01_2026, "Haus A", Status_Abgeschlossen, "Anna"),
      Ticket(D_NonNumeric, Undefined,    "Haus B", "Offen",              "Ben"),
      Ticket(NA,           Undefined,    "Haus A", Status_Ueberfaellig,  "N/A"),
      Ticket(D_08_01_2026, Undefined,    "Haus B", "Offen",              "Ben"),
      Ticket(D_07_01_2026, Undefined,    "Haus A", Status_Ueberfaellig,  "Anna"),
      Ticket(D_Iso,        D_05_02_2026, "Haus B", Status_Abgeschlossen, "Zoe"),
      Ticket(Undefined,    Undefined,    "Haus A", "Offen",              "Anna") }

\* the tickets a list is drawn from when the claim is about the aggregates
ReportPool ==
    { Ticket(D_01_01_2026, D_11_01_2026, "Haus A", Status_Abgeschlossen, "Anna"),
      Ticket(NA,           D_11_01_2026, "Haus A", Status_Abgeschlossen, "Anna"),
      Ticket(D_20_01_2026, D_NonNumeric, "Haus B", Status_Abgeschlossen, "Ben"),
      Ticket(D_08_01_2026, Undefined,    "Haus B", "Offen",              "Ben"),
      Ticket(D_20_01_2026, Undefined,    "Haus A", Status_Ueberfaellig,  "N/A"),
      Ticket(D_05_02_2026, Undefined,    "Haus B", "Offen",              "constructor") }

\* all lists of at most n elements of S
SeqsUpTo(S, n) == UNION {[1..k -> S] : k \in 0..n}

User(name, role) == [name |-> name, role |-> role]

UserLists ==
    { <<User("Anna", Role_Technician), User("Carl", "Admin"), User("Ben", Role_Technician)>>,
      <<User("Carl", "Admin")>> }

\* user lists with at least one technician
ReportUserLists ==
    { <<User("Anna", Role_Technician), User("Carl", "Admin"), User("Ben", Role_Technician)>>,
      <<User("Anna", Role_Technician)>> }

\* module evaluation over, with nothing configured
ClientDone ==
    /\ pc = "done"
    /\ environment = [SUPABASE_URL_OVERRIDE |-> Undefined, VITE_SUPABASE_URL |-> Undefined,
                      SUPABASE_ANON_KEY_OVERRIDE |-> Undefined,
                      VITE_SUPABASE_ANON_KEY |-> Undefined,
                      storageThrows |-> FALSE, createClientThrows |-> FALSE]
    /\ supabaseClient = NullClient
    /\ supabase = NullClient
    /\ console = <<>>
    /\ uncaught = FALSE

\* the component after its first render, for the given props
InitView(ticketLists, userLists) ==
    /\ tickets \in ticketLists
    /\ users \in userLists
    /\ LOCATIONS_FOR_FILTER = <<"Alle", "Haus A", "Haus B">>
    /\ STATUSES = <<"Alle", "Offen", Status_Ueberfaellig, Status_Abgeschlossen>>
    /\ reportFilters = DefaultFilters
    /\ lastOp = [op |-> "init", fromDefault |-> FALSE]
    /\ ClientDone

Init == InitView(SeqsUpTo(FilterPool, MaxTickets), UserLists)

Next ==
    \/ \E filterName \in FilterNames :
         \E value \in FilterOptions(filterName) : handleFilterChange(filterName, value)
    \/ resetFilters

Spec == Init /\ [][Next]_vars

InitReports == InitView(SeqsUpTo(ReportPool, MaxTickets), ReportUserLists)

SpecReports == InitReports /\ [][Next]_vars

-----------------------------------------------------------------------------
(* The initializer on its own *)

UrlValues ==
    { Undefined, <<>>, <<" ">>,
      <<"h", "t", "t", "p", ":", "/", "/", "x">>,
      <<" ", "h", "t", "t", "p", "s", ":", "/", "/", "x", " ">>,
      <<"f", "t", "p", ":", "/", "/", "x">>,
      <<"h", "t", "t">> }

KeyValues == { Undefined, <<>>, <<" ", "\t">>, <<"k">>, <<" ", "k", " ">> }

InitClient ==
    /\ pc = "start"
    /\ environment \in [SUPABASE_URL_OVERRIDE : UrlValues, VITE_SUPABASE_URL : UrlValues,
                        SUPABASE_ANON_KEY_OVERRIDE : KeyValues,
                        VITE_SUPABASE_ANON_KEY : KeyValues,
                        storageThrows : BOOLEAN, createClientThrows : BOOLEAN]
    /\ supabaseClient = NullClient
    /\ supabase = Uninitialized
    /\ console = <<>>
    /\ uncaught = FALSE
    /\ tickets = <<>>
    /\ users = <<>>
    /\ LOCATIONS_FOR_FILTER = <<"Alle">>
    /\ STATUSES = <<"Alle">>
    /\ reportFilters = DefaultFilters
    /\ lastOp = [op |-> "init", fromDefault |-> FALSE]

NextClient == InitializeModule

SpecClient == InitClient /\ [][NextClient]_vars

-----------------------------------------------------------------------------
(* Claims about the filter state and filteredTickets, under Spec *)

\* the entry date is not a day.month.year date: absent, "N/A", not three
\* dot-separated parts, or three parts none of which is a number
UnparseableEntryDate(dateStr) ==
    \/ ~Truthy(dateStr)
    \/ dateStr = NA
    \/ Len(Split(dateStr, ".")) /= 3
    \/ \A i \in 1..3 : parseInt(Split(dateStr, ".")[i]).nan

PassesCategoricalFilters(t) ==
    /\ reportFilters.area = "Alle" \/ t.area = reportFilters.area
    /\ reportFilters.status = "Alle" \/ t.status = reportFilters.status
    /\ reportFilters.technician = "Alle" \/ t.technician = reportFilters.technician

\* C3 as stated: under a bounded time range (7d, 30d, 90d) no ticket with an
\* unparseable entry date is in filteredTickets; under "all" every such ticket
\* that passes the area, status and technician filters is in filteredTickets.
C3_UnparseableExcluded ==
    \A i \in 1..Len(tickets) :
        UnparseableEntryDate(tickets[i].entryDate) =>
            IF reportFilters.timeRange /= "all"
            THEN tickets[i] \notin Range(filteredTickets)
            ELSE PassesCategoricalFilters(tickets[i]) => tickets[i] \in Range(filteredTickets)

\* C6: after resetFilters, whatever the filters were before, and in the initial
\* state, the filters are timeRange "30d" and area, status, technician "Alle".
C6_ResetRestoresDefaults ==
    lastOp.op \in {"init", "resetFilters"} =>
        /\ reportFilters.timeRange = "30d"
        /\ reportFilters.area = "Alle"
        /\ reportFilters.status = "Alle"
        /\ reportFilters.technician = "Alle"
        /\ DOMAIN reportFilters = FilterNames

C6_Witness ==
    /\ lastOp.op = "resetFilters"
    /\ ~lastOp.fromDefault
    /\ reportFilters.timeRange = "30d"

\* positions of the tickets that pass the time-range test and every
\* categorical filter
KeptPositions ==
    {i \in 1..Len(tickets) : TimeRangeTest(tickets[i]) /\ PassesCategoricalFilters(tickets[i])}

\* the j-th smallest element of a set of positions
NthSmallest(positions, j) ==
    CHOOSE i \in positions : Cardinality({k \in positions : k <= i}) = j

\* C9: filteredTickets is the sub-list of tickets, in their order, of exactly the
\* tickets that pass the time-range test and whose area, status and technician
\* each equal the filter value unless that filter is "Alle"; so stats.total is
\* at most the number of tickets, and completed + overdue is at most stats.total.
C9_FilterOnlyRemoves ==
    LET kept     == KeptPositions
        filtered == filteredTickets
        s        == stats
    IN  /\ Len(filtered) = Cardinality(kept)
        /\ \A j \in 1..Len(filtered) : filtered[j] = tickets[NthSmallest(kept, j)]
        /\ s.total = Len(filtered)
        /\ s.total <= Len(tickets)
        /\ s.abgeschlossene + s.ueberfaellige <= s.total

C9_Witness ==
    /\ Len(tickets) = 2
    /\ Len(filteredTickets) = 1
    /\ filteredTickets[1] = tickets[2]
    /\ reportFilters.status /= "Alle"
    /\ reportFilters.area /= "Alle"
    /\ reportFilters.technician /= "Alle"
    /\ reportFilters.timeRange = "90d"

-----------------------------------------------------------------------------
(* Claims about the aggregates, under SpecReports *)

TechnicianNames == Range(Names(technicians))

Labels(chart) == {chart[i].label : i \in 1..Len(chart)}

\* the value shown for a label of the chart
ChartValue(chart, label) == (chart[CHOOSE i \in 1..Len(chart) : chart[i].label = label]).value

RECURSIVE SumOfValues(_, _)
SumOfValues(chart, labels) ==
    IF labels = {} THEN Num(0)
    ELSE LET l == CHOOSE x \in labels : TRUE
         IN  NumAdd(ToNumber(ChartValue(chart, l)), SumOfValues(chart, labels \ {l}))

IsZero(v) == v.type = "number" /\ NumEq(v.n, Num(0))

CountableNames == TechnicianNames \ {"", "N/A", "__proto__"}

ParseableDate(dateStr) ==
    LET d == parseGermanDate(dateStr) IN ~d.isNull /\ d.valid

\* completion day - entry day, for two parseable dates
ProcessingDays(t) ==
    parseGermanDate(t.completionDate).day - parseGermanDate(t.entryDate).day

RECURSIVE SumProcessingDays(_, _)
SumProcessingDays(ts, positions) ==
    IF positions = {} THEN 0
    ELSE LET i == CHOOSE x \in positions : TRUE
         IN  ProcessingDays(ts[i]) + SumProcessingDays(ts, positions \ {i})

\* mean of the processing days of the tickets at the given positions, 0 if none
MeanProcessingDays(ts, positions) ==
    IF positions = {} THEN Num(0)
    ELSE NumDiv(Num(SumProcessingDays(ts, positions)), Num(Cardinality(positions)))

\* C2 as stated: stats.avgProcessingTime is the mean, rounded to one decimal,
\* of completion - entry in days over exactly the completed filtered tickets
\* whose two dates are present and parse (0.0 if there is none); a completed
\* ticket with an unparseable date does not change the mean of the others.
C2_AvgProcessingTimeIsMean ==
    LET filtered == filteredTickets
        counted  == {i \in 1..Len(filtered) :
                        /\ filtered[i].status = Status_Abgeschlossen
                        /\ ParseableDate(filtered[i].entryDate)
                        /\ ParseableDate(filtered[i].completionDate)}
    IN  stats.avgProcessingTime = toFixed1(MeanProcessingDays(filtered, counted))

NoDuplicateLabels(chart) ==
    \A i, j \in 1..Len(chart) : chart[i].label = chart[j].label => i = j

\* C7 as stated: ticketsByTechnician, technicianWorkload and
\* avgProcessingTimePerTechnician each hold exactly one entry per known
\* technician and none for any other name, with value 0 for a technician to
\* whom no filtered ticket is assigned.
C7_TechnicianMapsComplete ==
    LET filtered == filteredTickets
        assigned == {filtered[i].technician : i \in 1..Len(filtered)}
        Complete(chart) ==
            /\ NoDuplicateLabels(chart)
            /\ Labels(chart) = TechnicianNames
            /\ \A name \in TechnicianNames \ assigned : IsZero(ChartValue(chart, name))
    IN  /\ Complete(ticketsByTechnician)
        /\ Complete(technicianWorkload)
        /\ Complete(avgProcessingTimePerTechnician)

\* C10 as stated: for every known technician avgProcessingTimePerTechnician
\* holds the mean of completion - entry in days over the completed filtered
\* tickets assigned to that technician whose two dates are present and parse,
\* 0 if there is none; tickets of technician "N/A" count for nobody; the
\* entries are in non-increasing order of value.
C10_AvgPerTechnicianIsMean ==
    LET filtered == filteredTickets
        chart    == avgProcessingTimePerTechnician
        Counted(name) ==
            {i \in 1..Len(filtered) :
                /\ filtered[i].status = Status_Abgeschlossen
                /\ filtered[i].technician = name
                /\ filtered[i].technician /= "N/A"
                /\ ParseableDate(filtered[i].entryDate)
                /\ ParseableDate(filtered[i].completionDate)}
    IN  /\ \A name \in TechnicianNames :
              /\ name \in Labels(chart)
              /\ NumEq(ToNumber(ChartValue(chart, name)),
                       MeanProcessingDays(filtered, Counted(name)))
        /\ \A i, j \in 1..Len(chart) :
              i < j => ~NumLess(ToNumber(chart[i].value), ToNumber(chart[j].value))

-----------------------------------------------------------------------------
(* The area chart on lists with more than eight areas *)

AreaNames ==
    <<"Haus A", "Haus B", "Haus C", "Haus D", "Haus E", "Haus F", "Haus G", "Haus H",
      "Haus I">>

\* one ticket per area
AreaBase ==
    [i \in 1..Len(AreaNames) |->
        Ticket(IF i % 2 = 1 THEN D_05_02_2026 ELSE D_20_01_2026, Undefined, AreaNames[i],
               IF i % 3 = 0 THEN Status_Ueberfaellig ELSE "Offen", "N/A")]

\* further tickets of some of the areas
AreaExtraPool ==
    { Ticket(D_05_02_2026, Undefined,    "Haus I", "Offen",              "N/A"),
      Ticket(D_20_01_2026, D_05_02_2026, "Haus I", Status_Abgeschlossen, "N/A"),
      Ticket(D_05_02_2026, Undefined,    "Haus A", "Offen",              "N/A"),
      Ticket(D_01_01_2026, Undefined,    "Haus H", Status_Ueberfaellig,  "N/A") }

AreaTicketLists ==
    UNION {{AreaBase \o extra, extra \o AreaBase} : extra \in SeqsUpTo(AreaExtraPool, MaxTickets)}

InitAreas ==
    /\ tickets \in AreaTicketLists
    /\ users = <<User("Carl", "Admin")>>
    /\ LOCATIONS_FOR_FILTER = <<"Alle">> \o AreaNames
    /\ STATUSES = <<"Alle", "Offen", Status_Ueberfaellig, Status_Abgeschlossen>>
    /\ reportFilters = DefaultFilters
    /\ lastOp = [op |-> "init", fromDefault |-> FALSE]
    /\ ClientDone

SpecAreas == InitAreas /\ [][Next]_vars

-----------------------------------------------------------------------------
(* Claims about the initializer, under SpecClient *)

\* a setting as the claim resolves it: the override if non-empty, else the
\* build-time value if there is one, else the empty string; then trimmed
Resolved(override, buildTime) ==
    Trim(IF override /= Undefined /\ Len(override) > 0 THEN override
         ELSE IF buildTime /= Undefined THEN buildTime
         ELSE <<>>)

ResolvedUrl == Resolved(environment.SUPABASE_URL_OVERRIDE, environment.VITE_SUPABASE_URL)

ResolvedKey ==
    Resolved(environment.SUPABASE_ANON_KEY_OVERRIDE, environment.VITE_SUPABASE_ANON_KEY)

ValidSettings ==
    /\ ResolvedUrl /= <<>>
    /\ ResolvedKey /= <<>>
    /\ Len(ResolvedUrl) >= 4
    /\ ResolvedUrl[1] = "h" /\ ResolvedUrl[2] = "t" /\ ResolvedUrl[3] = "t" /\ ResolvedUrl[4] = "p"

Warned == \E i \in 1..Len(console) : console[i] = "warn: incomplete or invalid"

LoggedError == \E i \in 1..Len(console) : console[i] = "error: failed to initialize"

\* C4: once the module is evaluated, the settings having been read, the
\* exported handle is a client (of the resolved URL and key) exactly when both
\* resolved settings are non-empty, the URL begins with "http" and
\* construction did not throw, and is null otherwise; the warning is logged
\* exactly when the settings are not valid and one of them is non-empty; with
\* both empty nothing is logged.
C4_InitializationOutcome ==
    (pc = "done" /\ ~environment.storageThrows) =>
        /\ supabase.kind = "client" <=> (ValidSettings /\ ~environment.createClientThrows)
        /\ supabase.kind = "client" =>
              supabase = [kind |-> "client", url |-> ResolvedUrl, key |-> ResolvedKey]
        /\ supabase.kind /= "client" => supabase = NullClient
        /\ Warned <=> (~ValidSettings /\ (ResolvedUrl /= <<>> \/ ResolvedKey /= <<>>))
        /\ (ResolvedUrl = <<>> /\ ResolvedKey = <<>>) => console = <<>>

C4_Witness ==
    /\ pc = "done"
    /\ supabase.kind = "client"
    /\ environment.SUPABASE_URL_OVERRIDE = <<>>
    /\ environment.VITE_SUPABASE_URL /= Undefined
    /\ Len(environment.VITE_SUPABASE_URL) > Len(supabase.url)
    /\ environment.SUPABASE_ANON_KEY_OVERRIDE = <<" ", "k", " ">>

\* C5: once the module is evaluated no exception has escaped, the exported
\* handle is null or a complete client, and if reading the settings or
\* constructing the client threw, the handle is null and the error is logged.
C5_InitializationNeverThrows ==
    pc = "done" =>
        /\ ~uncaught
        /\ supabase = supabaseClient
        /\ \/ supabase = NullClient
           \/ /\ supabase.kind = "client"
              /\ supabase.url /= <<>>
              /\ supabase.key /= <<>>
        /\ (environment.storageThrows \/ (ValidSettings /\ environment.createClientThrows)) =>
              /\ supabase = NullClient
              /\ LoggedError
              /\ ~Warned

C5_Witness ==
    /\ pc = "done"
    /\ ValidSettings
    /\ environment.createClientThrows
    /\ ~environment.storageThrows
    /\ LoggedError
    /\ supabase = NullClient

-----------------------------------------------------------------------------
(* The time-range cutoff, on entry dates around the three cutoff days *)

D_08_11_2025 == <<"0", "8", ".", "1", "1", ".", "2", "0", "2", "5">>

D_09_11_2025 == <<"0", "9", ".", "1", "1", ".", "2", "0", "2", "5">>

D_30_01_2026 == <<"3", "0", ".", "0", "1", ".", "2", "0", "2", "6">>

D_31_01_2026 == <<"3", "1", ".", "0", "1", ".", "2", "0", "2", "6">>

D_08_02_2026 == <<"0", "8", ".", "0", "2", ".", "2", "0", "2", "6">>

\* a year of two digits: "1.2.26"
D_1_2_26 == <<"1", ".", "2", ".", "2", "6">>

CutoffPool ==
    { Ticket(D_08_11_2025, Undefined,    "Haus A", "Offen",              "N/A"),
      Ticket(D_09_11_2025, Undefined,    "Haus B", "Offen",              "N/A"),
      Ticket(D_07_01_2026, Undefined,    "Haus A", Status_Ueberfaellig,  "N/A"),
      Ticket(D_08_01_2026, D_11_01_2026, "Haus B", Status_Abgeschlossen, "N/A"),
      Ticket(D_30_01_2026, Undefined,    "Haus A", "Offen",              "N/A"),
      Ticket(D_31_01_2026, Undefined,    "Haus A", Status_Ueberfaellig,  "N/A"),
      Ticket(D_08_02_2026, Undefined,    "Haus B", "Offen",              "N/A"),
      Ticket(D_1_2_26,     Undefined,    "Haus B", Status_Ueberfaellig,  "N/A"),
      Ticket(NA,           Undefined,    "Haus A", "Offen",              "N/A"),
      Ticket(D_NonNumeric, Undefined,    "Haus B", "Offen",              "N/A") }

InitCutoff == InitView(SeqsUpTo(CutoffPool, MaxTickets), {<<User("Carl", "Admin")>>})

SpecCutoff == InitCutoff /\ [][Next]_vars

\* the calendar day a day.month.year string names, counted from 1970-01-01
CalendarDay(dateStr) ==
    LET parts == Split(dateStr, ".")
    IN  DaysFromCivil(parseInt(parts[3]).num, parseInt(parts[2]).num, 1)
        + parseInt(parts[1]).num - 1

\* 7 February 2026
ReferenceDay == DaysFromCivil(2026, 2, 7)

RangeDays(timeRange) ==
    CASE timeRange = "7d" -> 7 [] timeRange = "30d" -> 30 [] timeRange = "90d" -> 90

\* the value of filteredTickets when the selected range is timeRange and the
\* area, status and technician filters are the current ones
FilteredFor(timeRange) ==
    SelectSeq(tickets, LAMBDA t : TimeRangeTestFor(timeRange, t) /\ PassesCategoricalFilters(t))

RECURSIVE IsSubList(_, _)
IsSubList(a, b) ==
    IF a = <<>> THEN TRUE
    ELSE IF b = <<>> THEN FALSE
    ELSE IF Head(a) = Head(b) THEN IsSubList(Tail(a), Tail(b))
    ELSE IsSubList(a, Tail(b))

\* C11: with the reference day 7 February 2026, under a bounded range of N days
\* (7, 30, 90) a ticket with a parseable entry date that passes the area, status
\* and technician filters is in filteredTickets exactly when its entry day is
\* not earlier than the reference day minus N days; and with the area, status
\* and technician filters held fixed, filteredTickets for 7d is a sub-list of
\* that for 30d, which is a sub-list of that for 90d, which is a sub-list of
\* that for "all".
C11_TimeRangeCutoff ==
    LET filtered == filteredTickets
        f7       == FilteredFor("7d")
        f30      == FilteredFor("30d")
        f90      == FilteredFor("90d")
        fAll     == FilteredFor("all")
    IN  /\ filtered = FilteredFor(reportFilters.timeRange)
        /\ reportFilters.timeRange /= "all" =>
                \A i \in 1..Len(tickets) :
                    (ParseableDate(tickets[i].entryDate) /\ PassesCategoricalFilters(tickets[i])) =>
                        (tickets[i] \in Range(filtered)
                            <=> CalendarDay(tickets[i].entryDate)
                                    >= ReferenceDay - RangeDays(reportFilters.timeRange))
        /\ IsSubList(f7, f30)
        /\ IsSubList(f30, f90)
        /\ IsSubList(f90, fAll)

\* the cutoff day of 7d passes and the day before does not, while 30d keeps both
C11_Witness ==
    /\ reportFilters.timeRange = "7d"
    /\ Len(tickets) = 2
    /\ tickets[1].entryDate = D_30_01_2026
    /\ tickets[2].entryDate = D_31_01_2026
    /\ filteredTickets = <<tickets[2]>>
    /\ FilteredFor("30d") = tickets
    /\ lastOp.op = "handleFilterChange"

====
